---------------------------- MODULE Spec2Model ----------------------------
(***************************************************************************)
(* Zeeman splitting of atomic levels and multiplets (package "magnetic"):  *)
(* state.py (class State), transitions.py (class Multiplet) and the Na D   *)
(* entry of data.py.                                                       *)
(*                                                                         *)
(* Number representation.  The code holds J and S as fractions.Fraction    *)
(* and L as int.  Here every angular momentum and every mJ is an integer   *)
(* count of QUARTERS (J = 3/2 is 6, L = 1 is 4), so that halves and        *)
(* quarters are exact.  The L argument of State() is given in HALVES       *)
(* before int() is applied to it.  Relative strengths are integers in      *)
(* units of 1/64.  Energies k0 are integers in units of 0.01 cm^-1.  A     *)
(* Fraction value is a record [n, d] in lowest terms with d > 0.           *)
(***************************************************************************)
EXTENDS Integers, Sequences, FiniteSets, TLC

VARIABLES ctor, gcache, gout, rs, mult, call, out

vars == <<ctor, gcache, gout, rs, mult, call, out>>

---------------------------------------------------------------------------
(* Bounds of the explored inputs *)

\* largest J and S argument of State(), in quarters
MaxJ4 == 8
\* largest L argument of State(), in halves
MaxL2 == 4
\* largest field strength B, in kG
MaxB == 2
\* largest number of points of a wavelength grid x
MaxGrid == 2
\* largest strength scaling parameter of profile()
MaxStrength == 1
\* largest number of method calls made on one Multiplet
MaxCalls == 1

---------------------------------------------------------------------------
(* Python / numpy primitives *)

Abs(x) == IF x < 0 THEN -x ELSE x

\* int(n/d): truncation toward zero
IntTrunc(n, d) == IF n >= 0 THEN n \div d ELSE -((-n) \div d)

RECURSIVE Gcd(_, _)
Gcd(a, b) == IF b = 0 THEN a ELSE Gcd(b, a % b)

\* fractions.Fraction(n, d): lowest terms, positive denominator (d # 0)
Fraction(n, d) ==
    LET g == Gcd(Abs(n), Abs(d))
        s == IF d < 0 THEN -1 ELSE 1
    IN  [n |-> (s * n) \div g, d |-> (s * d) \div g]

\* len(np.arange(start, stop)) with step 1: ceil(stop - start), not below 0.
\* start and stop in quarters.
ArangeLen(start, stop) ==
    IF stop - start <= 0 THEN 0 ELSE (stop - start + 3) \div 4

\* np.arange(start, stop) with step 1: start, start+1, ... (len items)
Arange(start, stop) ==
    [i \in 1..ArangeLen(start, stop) |-> start + 4 * (i - 1)]

Range(s) == {s[i] : i \in DOMAIN s}

---------------------------------------------------------------------------
(* state.py: class State *)

\* State.__init__(k0, J, L, S): J, S in quarters, L in halves.
\* obj is <<>> when the constructor raises, <<the State>> when it returns.
State__init__(k0, J, L, S) ==
    LET Lint == IntTrunc(L, 2)
        L4   == 4 * Lint
    IN  IF J < 0 \/ Lint < 0 \/ S < 0
        THEN [err |-> "ValueError: JLS must be non-negative", obj |-> <<>>]
        ELSE IF J \notin Range(Arange(Abs(L4 - S), L4 + S + 4))
        THEN [err |-> "ValueError: Invalid JLS combination", obj |-> <<>>]
        ELSE [err |-> "none",
              obj |-> <<[k0 |-> k0, J |-> J, L |-> Lint, S |-> S]>>]

\* X*(X+1) in units of 1/16, X in quarters
XX1(X4) == X4 * (X4 + 4)

\* State.g with the L == S test moved to the front
State_g_reordered(s) ==
    IF 4 * s.L = s.S THEN [err |-> "none", val |-> Fraction(3, 2)]
    ELSE IF s.S = 0 THEN [err |-> "none", val |-> Fraction(1, 1)]
    ELSE IF s.L = 0 THEN [err |-> "none", val |-> Fraction(2, 1)]
    ELSE IF s.J = 0 THEN [err |-> "none", val |-> Fraction(0, 1)]
    ELSE [err |-> "none",
          val |-> Fraction(3 * XX1(s.J) + XX1(s.S) - XX1(4 * s.L), 2 * XX1(s.J))]

\* State.g: the Lande g-factor, a Fraction
State_g(s) ==
    IF s.S = 0 THEN [err |-> "none", val |-> Fraction(1, 1)]
    ELSE IF s.L = 0 THEN [err |-> "none", val |-> Fraction(2, 1)]
    ELSE IF 4 * s.L = s.S THEN [err |-> "none", val |-> Fraction(3, 2)]
    ELSE IF s.J = 0 THEN [err |-> "none", val |-> Fraction(0, 1)]
    ELSE LET JJ1 == XX1(s.J)
             LL1 == XX1(4 * s.L)
             SS1 == XX1(s.S)
         IN  IF 2 * JJ1 = 0
             THEN [err |-> "ZeroDivisionError", val |-> Fraction(0, 1)]
             ELSE [err |-> "none",
                   val |-> Fraction(2 * JJ1 + (JJ1 + SS1 - LL1), 2 * JJ1)]

\* State.mJs: np.arange(-J, J+1), in quarters
mJs(s) == Arange(-s.J, s.J + 4)

\* The coefficient of 0.046686 in State.splitting(mJ, B): B * (mJ * g).
\* g is a Fraction record, mJ in quarters, B in kG.
splitting(g, mJ, B) == Fraction(B * mJ * g.n, 4 * g.d)

\* State.energy(mJ, B) = k0 + 0.046686 * B * float(mJ * g), kept as the pair
\* (k0, coefficient of 0.046686)
energy(s, g, mJ, B) == [k0 |-> s.k0, sh |-> splitting(g, mJ, B)]

\* State.energies(B): [SubState(mJ, energy(mJ, B)) for mJ in mJs]
energies_of(s, B, g, m) ==
    IF g.err # "none"
    THEN [err |-> g.err, val |-> <<>>]
    ELSE [err |-> "none",
          val |-> [i \in DOMAIN m |-> [mJ |-> m[i], k |-> energy(s, g.val, m[i], B)]]]

\* self.g and self.mJs are read, then the list is built
energies(s, B) == energies_of(s, B, State_g(s), mJs(s))

---------------------------------------------------------------------------
(* transitions.py: class Multiplet *)

\* the default of the defaultdict behind Multiplet.log_gf, in 1/1000 dex
DefaultLogGf == -10000
\* 0.046686 cm^-1/kG in units of 1e-6
ZeemanK == 46686
\* the 1e8 of w_line = 1e8/(us.k - ls.k): Angstrom per cm
AngstromPerCm == 100000000

\* Multiplet.__init__ with the log_gf setter: defaultdict(lambda: -10.0, value)
Multiplet__init__(Lower_states, Upper_states, log_gf) ==
    [Lower_states |-> Lower_states, Upper_states |-> Upper_states, log_gf |-> log_gf]

\* defaultdict.__getitem__: a missing key is inserted with the default
log_gf_getitem(d, key) ==
    IF key \in DOMAIN d
    THEN [val |-> d[key], dict |-> d]
    ELSE [val |-> DefaultLogGf,
          dict |-> [k \in DOMAIN d \cup {key} |->
                        IF k \in DOMAIN d THEN d[k] ELSE DefaultLogGf]]

\* relative_strength with the dJ dispatch ahead of the |dm| > 1 cutoff
relative_strength_dJ_first(Ji, Jf, mi, mf) ==
    LET dJ == IntTrunc(Jf - Ji, 4)
        dm == IntTrunc(mf - mi, 4)
        m_ == dm * mi
    IN  IF dJ \notin {-1, 0, 1} THEN [err |-> "ValueError", val |-> 0]
        ELSE IF Abs(dm) > 1 THEN [err |-> "none", val |-> 0]
        ELSE IF dJ = 0
        THEN [err |-> "none",
              val |-> IF dm = 0 THEN 4 * mi * mi ELSE (Ji - m_) * (Ji + m_ + 4)]
        ELSE IF dJ = 1
        THEN [err |-> "none",
              val |-> IF dm = 0 THEN 4 * ((Ji + 4) * (Ji + 4) - mi * mi)
                                ELSE (Ji + m_ + 4) * (Ji + m_ + 8)]
        ELSE [err |-> "none",
              val |-> IF dm = 0 THEN 4 * (Ji * Ji - mi * mi)
                                ELSE (Ji - m_) * (Ji - m_ - 4)]

\* Multiplet.relative_strength(Ji, Jf, mi, mf): arguments in quarters, the
\* value in units of 1/64
relative_strength(Ji, Jf, mi, mf) ==
    LET dJ == IntTrunc(Jf - Ji, 4)
        dm == IntTrunc(mf - mi, 4)
        m_ == dm * mi
    IN  IF Abs(dm) > 1 THEN [err |-> "none", val |-> 0]
        ELSE IF dJ = 0
        THEN [err |-> "none",
              val |-> IF dm = 0 THEN 4 * mi * mi ELSE (Ji - m_) * (Ji + m_ + 4)]
        ELSE IF dJ = 1
        THEN [err |-> "none",
              val |-> IF dm = 0 THEN 4 * ((Ji + 4) * (Ji + 4) - mi * mi)
                                ELSE (Ji + m_ + 4) * (Ji + m_ + 8)]
        ELSE IF dJ = -1
        THEN [err |-> "none",
              val |-> IF dm = 0 THEN 4 * (Ji * Ji - mi * mi)
                                ELSE (Ji - m_) * (Ji - m_ - 4)]
        ELSE [err |-> "ValueError", val |-> 0]

\* Multiplet.states_outer_product(): the p-th pair <<uS, lS>> of
\* product(Upper_states, Lower_states)
states_outer_product(m, p) ==
    <<m.Upper_states[((p - 1) \div Len(m.Lower_states)) + 1],
      m.Lower_states[((p - 1) % Len(m.Lower_states)) + 1]>>

\* the i-th pair <<ls, us>> of product(l_substates, u_substates)
substates_product(lsub, usub, i) ==
    <<lsub[((i - 1) \div Len(usub)) + 1], usub[((i - 1) % Len(usub)) + 1]>>

\* relative_strength(lS.J, uS.J, ls.mJ, us.mJ) for the pair p = <<ls, us>>
relative_strength_of(lS, uS, p) == relative_strength(lS.J, uS.J, p[1].mJ, p[2].mJ)

\* total_strength = sum(relative_strength(...) for ls, us in product(...)):
\* total_strength_add adds the term r of the i-th pair to the sum so far
RECURSIVE total_strength(_, _, _, _, _, _)
total_strength_add(lS, uS, lsub, usub, i, acc, r) ==
    IF r.err # "none" THEN [err |-> r.err, val |-> 0]
    ELSE total_strength(lS, uS, lsub, usub, i + 1, acc + r.val)

total_strength(lS, uS, lsub, usub, i, acc) ==
    IF i > Len(lsub) * Len(usub) THEN [err |-> "none", val |-> acc]
    ELSE total_strength_add(lS, uS, lsub, usub, i, acc,
             relative_strength_of(lS, uS, substates_product(lsub, usub, i)))

\* us.k - ls.k: the difference of the k0 and of the 0.046686 coefficients
k_difference(usk, lsk) ==
    [dk0 |-> usk.k0 - lsk.k0,
     dsh |-> Fraction(usk.sh.n * lsk.sh.d - lsk.sh.n * usk.sh.d,
                      usk.sh.d * lsk.sh.d)]

\* ls.k - us.k
k_difference_swapped(usk, lsk) == k_difference(lsk, usk)

\* the denominator of w_line = 1e8/(us.k - ls.k)
w_line_denominator(usk, lsk) == k_difference(usk, lsk)

\* dk0/100 + 0.046686 * dsh = 0
IsZeroK(dk) ==
    /\ (ZeemanK * dk.dsh.n) % (10000 * dk.dsh.d) = 0
    /\ dk.dk0 = -((ZeemanK * dk.dsh.n) \div (10000 * dk.dsh.d))

\* the inner loop of transitions over product(l_substates, u_substates):
\* transitions_emit is the loop from its i-th pair on, transitions_sub the
\* loop body for the pair <<ls, us>>, transitions_record the body past the
\* |dmJ| > 1 test
RECURSIVE transitions_emit(_, _, _, _, _, _, _, _, _)
transitions_record(lS, uS, lsub, usub, T, loggf, total, i, recs, ls, us, dmJ, dk, rel) ==
    IF T = 0 \/ IsZeroK(dk)
    THEN [err |-> "ZeroDivisionError", recs |-> recs]
    ELSE IF rel.err # "none"
    THEN [err |-> rel.err, recs |-> recs]
    ELSE IF total = 0
    THEN [err |-> "ZeroDivisionError", recs |-> recs]
    ELSE transitions_emit(lS, uS, lsub, usub, T, loggf, total, i + 1,
             Append(recs,
                 [w_line |-> dk,
                  gf_    |-> [log_gf |-> loggf, rel |-> rel.val, total |-> total],
                  lS     |-> lS,
                  uS     |-> uS,
                  \* lmJ, umJ: the sublevel pair the record comes from; not
                  \* in the yielded tuple, kept to state the selection rule
                  lmJ    |-> ls.mJ,
                  umJ    |-> us.mJ,
                  dmJ    |-> dmJ,
                  boltz  |-> [k |-> ls.k, T |-> T]]))

transitions_sub(lS, uS, lsub, usub, T, loggf, total, i, recs, ls, us, dmJ) ==
    IF Abs(dmJ) > 1
    THEN transitions_emit(lS, uS, lsub, usub, T, loggf, total, i + 1, recs)
    ELSE transitions_record(lS, uS, lsub, usub, T, loggf, total, i, recs, ls, us, dmJ,
             w_line_denominator(us.k, ls.k),
             relative_strength(lS.J, uS.J, ls.mJ, us.mJ))

transitions_emit(lS, uS, lsub, usub, T, loggf, total, i, recs) ==
    IF i > Len(lsub) * Len(usub) THEN [err |-> "none", recs |-> recs]
    ELSE LET p == substates_product(lsub, usub, i)
         IN  transitions_sub(lS, uS, lsub, usub, T, loggf, total, i, recs,
                 p[1], p[2], IntTrunc(p[2].mJ - p[1].mJ, 4))

\* the body of the outer loop from the gf0 lookup on: the lookup g of
\* self.log_gf[(lS.J, uS.J)], then the inner loop
transitions_lookup(uS, lS, T, recs, le, ue, tot, g) ==
    LET e == transitions_emit(lS, uS, le.val, ue.val, T, g.val, tot.val, 1, recs)
    IN  [err |-> e.err, recs |-> e.recs, dict |-> g.dict]

\* the body of the outer loop once l_substates, u_substates are computed
transitions_levels(uS, lS, T, recs, d, le, ue, tot) ==
    IF tot.err # "none"
    THEN [err |-> tot.err, recs |-> recs, dict |-> d]
    ELSE transitions_lookup(uS, lS, T, recs, le, ue, tot,
             log_gf_getitem(d, <<lS.J, uS.J>>))

transitions_energies(uS, lS, T, recs, d, le, ue) ==
    IF le.err # "none" THEN [err |-> le.err, recs |-> recs, dict |-> d]
    ELSE IF ue.err # "none" THEN [err |-> ue.err, recs |-> recs, dict |-> d]
    ELSE transitions_levels(uS, lS, T, recs, d, le, ue,
             total_strength(lS, uS, le.val, ue.val, 1, 0))

\* one iteration of the outer loop of transitions, for the level pair (uS, lS)
transitions_pair(uS, lS, B, T, recs, d) ==
    IF Abs(uS.J - lS.J) > 4 THEN [err |-> "none", recs |-> recs, dict |-> d]
    ELSE IF uS.J = 0 /\ lS.J = 0 THEN [err |-> "none", recs |-> recs, dict |-> d]
    ELSE transitions_energies(uS, lS, T, recs, d, energies(lS, B), energies(uS, B))

\* Multiplet.transitions(B, T) consumed to its end: the records it yields,
\* the exception that ends it (if any) and the log_gf mapping it leaves.
\* transitions_from is the outer loop from its p-th level pair on,
\* transitions_next what follows the result r of the p-th pair.
RECURSIVE transitions_from(_, _, _, _, _, _)
transitions_next(m, B, T, p, r) ==
    IF r.err # "none" THEN r
    ELSE transitions_from(m, B, T, p + 1, r.recs, r.dict)

transitions_from(m, B, T, p, recs, d) ==
    IF p > Len(m.Upper_states) * Len(m.Lower_states)
    THEN [err |-> "none", recs |-> recs, dict |-> d]
    ELSE LET pr == states_outer_product(m, p)
         IN  transitions_next(m, B, T, p,
                 transitions_pair(pr[1], pr[2], B, T, recs, d))

transitions(m, B, T) == transitions_from(m, B, T, 1, <<>>, m.log_gf)

\* One array of line_profile: boltz * gf_ * rot_factor * V over the grid x.
\* boltz = exp(..) > 0, gf0 = 10**.. > 0 and V = voigt_profile(..) > 0 (for
\* res_g, res_l > 0), so a point is "zero" exactly when rel_strength = 0 or
\* rot_factor = sin(psi)**2 = 0 (psi = 0, dmJ = 0), and "pos" otherwise.
line_profile_array(tr, x, psi) ==
    LET rot_zero == tr.dmJ = 0 /\ psi = 0
        c == IF tr.gf_.rel = 0 \/ rot_zero THEN "zero"
             ELSE IF tr.gf_.rel > 0 THEN "pos" ELSE "neg"
    IN  [i \in DOMAIN x |-> c]

\* Multiplet.line_profile(B, x, res_l, res_g, psi, T, rv) consumed to its end
line_profile_of(t, x, psi) ==
    [err  |-> t.err,
     arrs |-> [i \in DOMAIN t.recs |-> line_profile_array(t.recs[i], x, psi)],
     dict |-> t.dict]

\* for tr in self.transitions(B, T): yield ...
line_profile(m, B, x, psi, T) == line_profile_of(transitions(m, B, T), x, psi)

\* the sign of the i-th point of sum(arrays)
RECURSIVE sum_point(_, _, _, _)
sum_point(arrs, i, j, acc) ==
    IF j > Len(arrs) THEN acc
    ELSE sum_point(arrs, i, j + 1,
             IF arrs[j][i] = "zero" THEN acc
             ELSE IF acc = "zero" \/ acc = arrs[j][i] THEN arrs[j][i]
             ELSE "any")

\* np.exp(-strength * y) for y of the given sign: "one" is exactly 1.0,
\* "below_one" a value in (0, 1), "above_one" a value above 1
exp_neg(strength, y) ==
    IF strength = 0 \/ y = "zero" THEN "one"
    ELSE IF y = "any" THEN "any"
    ELSE IF (strength > 0) = (y = "pos") THEN "below_one" ELSE "above_one"

\* np.exp(-strength * sum(lp)) for the generator lp of line_profile.
\* sum() of no arrays is the int 0, and np.exp of it a scalar.
profile_of(lp, x, strength) ==
    IF lp.err # "none"
    THEN [err |-> lp.err, kind |-> "none", val |-> <<>>, dict |-> lp.dict]
    ELSE IF Len(lp.arrs) = 0
    THEN [err |-> "none", kind |-> "scalar",
          val |-> <<exp_neg(strength, "zero")>>, dict |-> lp.dict]
    ELSE [err |-> "none", kind |-> "array",
          val |-> [i \in DOMAIN x |->
                      exp_neg(strength, sum_point(lp.arrs, i, 1, "zero"))],
          dict |-> lp.dict]

\* Multiplet.profile(B, x, strength, res_l, res_g, psi, T, rv)
profile(m, B, x, strength, psi, T) ==
    profile_of(line_profile(m, B, x, psi, T), x, strength)

---------------------------------------------------------------------------
(* data.py *)

\* atomic_data['Na D']
atomic_data_NaD ==
    Multiplet__init__(
        <<State__init__(0, 2, 0, 2).obj[1]>>,
        <<State__init__(1697337, 6, 2, 2).obj[1],
          State__init__(1695617, 2, 2, 2).obj[1]>>,
        (<<2, 6>> :> 108) @@ (<<2, 2>> :> -194))

---------------------------------------------------------------------------
(* State: the arguments of a constructor call are drawn, then State(...) runs
   and the g property of the new object is read *)

NoCtor == [args |-> <<>>, err |-> "none", obj |-> <<>>]
NoG == [err |-> "none", val |-> <<>>]
NoRs == [args |-> <<>>, err |-> "none", val |-> 0]
NoCall == [op |-> "none", n |-> 0, B |-> 0, T |-> 0, x |-> <<>>, strength |-> 0, psi |-> 0]
NoOut == [err |-> "none", kind |-> "none", val |-> <<>>]

K0Args == {0, 1697337}
JArgs == -4..MaxJ4
LArgs == -2..MaxL2

InitState ==
    /\ ctor \in {[args |-> <<k0, J, L, S>>, err |-> "pending", obj |-> <<>>] :
                    k0 \in K0Args, J \in JArgs, L \in LArgs, S \in JArgs}
    /\ gcache = <<>>
    /\ gout = NoG
    /\ rs = NoRs
    /\ mult = atomic_data_NaD
    /\ call = NoCall
    /\ out = NoOut

\* s = State(k0, J, L, S)
NewState ==
    /\ ctor.err = "pending"
    /\ LET r == State__init__(ctor.args[1], ctor.args[2], ctor.args[3], ctor.args[4])
       IN  ctor' = [ctor EXCEPT !.err = r.err, !.obj = r.obj]
    /\ UNCHANGED <<gcache, gout, rs, mult, call, out>>

\* s.g: functools.cached_property, computed on the first access and kept
AccessG ==
    /\ ctor.obj # <<>>
    /\ LET r == IF gcache # <<>>
                THEN [err |-> "none", val |-> gcache[1]]
                ELSE State_g(ctor.obj[1])
       IN  /\ gout' = [err |-> r.err, val |-> IF r.err = "none" THEN <<r.val>> ELSE <<>>]
           /\ gcache' = IF r.err = "none" THEN <<r.val>> ELSE gcache
    /\ UNCHANGED <<ctor, rs, mult, call, out>>

NextState == NewState \/ AccessG

SpecState == InitState /\ [][NextState]_vars

---------------------------------------------------------------------------
(* Multiplet.relative_strength called directly on drawn arguments *)

\* Ji, Jf, mi, mf: multiples of 1/2
JHalves == {J \in 0..MaxJ4 : J % 2 = 0}
MHalves == {m \in (-MaxJ4)..MaxJ4 : m % 2 = 0}

InitStrength ==
    /\ ctor = NoCtor
    /\ gcache = <<>>
    /\ gout = NoG
    /\ rs \in {[args |-> <<Ji, Jf, mi, mf>>, err |-> "pending", val |-> 0] :
                  Ji \in JHalves, Jf \in JHalves, mi \in MHalves, mf \in MHalves}
    /\ mult = atomic_data_NaD
    /\ call = NoCall
    /\ out = NoOut

CallRelativeStrength ==
    /\ rs.err = "pending"
    /\ LET r == relative_strength(rs.args[1], rs.args[2], rs.args[3], rs.args[4])
       IN  rs' = [rs EXCEPT !.err = r.err, !.val = r.val]
    /\ UNCHANGED <<ctor, gcache, gout, mult, call, out>>

NextStrength == CallRelativeStrength

SpecStrength == InitStrength /\ [][NextStrength]_vars

---------------------------------------------------------------------------
(* Multiplet: a multiplet has been built (the shipped Na D, or one built from
   accepted States), then its methods are called in any order *)

\* the States State() accepts among the given arguments
AcceptedStates(k0s, Js, Ls, Ss) ==
    {r.obj[1] : r \in {c \in {State__init__(k0, J, L, S) :
                                 k0 \in k0s, J \in Js, L \in Ls, S \in Ss} :
                       c.err = "none"}}

\* levels of user-built multiplets: J in {0, 1/2, 1, 3/2}, L in {0, 1},
\* S in {0, 1/2}; lower levels at 0 cm^-1, upper levels at 1000 cm^-1
LowerPool == AcceptedStates({0}, {0, 2, 4, 6}, {0, 2}, {0, 2})
UpperPool == AcceptedStates({100000}, {0, 2, 4, 6}, {0, 2}, {0, 2})

SeqsUpTo(S, n) == UNION {[1..k -> S] : k \in 0..n}

KeysOf(lower, upper) ==
    {<<lower[i].J, upper[j].J>> : i \in DOMAIN lower, j \in DOMAIN upper}

\* Multiplet(Lower_states, Upper_states, log_gf) with no key, or every key
UserMultiplets ==
    UNION {{Multiplet__init__(lower, upper, [k \in keys |-> 0]) :
               keys \in {{}, KeysOf(lower, upper)}} :
           lower \in SeqsUpTo(LowerPool, 1), upper \in SeqsUpTo(UpperPool, 2)}

Temps == {300, 6000}
GridPoints == {589158}
Grids == SeqsUpTo(GridPoints, MaxGrid)
Psis == {0, 1}

InitMult ==
    /\ ctor = NoCtor
    /\ gcache = <<>>
    /\ gout = NoG
    /\ rs = NoRs
    /\ mult \in {atomic_data_NaD} \cup UserMultiplets
    /\ call = NoCall
    /\ out = NoOut

\* list(m.transitions(B, T))
CallTransitions ==
    /\ call.n < MaxCalls
    /\ \E B \in 0..MaxB, T \in Temps :
          \E r \in {transitions(mult, B, T)} :
              /\ mult' = [mult EXCEPT !.log_gf = r.dict]
              /\ call' = [NoCall EXCEPT !.op = "transitions", !.n = call.n + 1, !.B = B, !.T = T]
              /\ out' = [err |-> r.err, kind |-> "records", val |-> r.recs]
              /\ UNCHANGED <<ctor, gcache, gout, rs>>

\* list(m.line_profile(B, x, res_l, res_g, psi, T, rv))
CallLineProfile ==
    /\ call.n < MaxCalls
    /\ \E B \in 0..MaxB, T \in Temps, x \in Grids, psi \in Psis :
          \E r \in {line_profile(mult, B, x, psi, T)} :
              /\ mult' = [mult EXCEPT !.log_gf = r.dict]
              /\ call' = [NoCall EXCEPT !.op = "line_profile", !.n = call.n + 1, !.B = B, !.T = T,
                                        !.x = x, !.psi = psi]
              /\ out' = [err |-> r.err, kind |-> "arrays", val |-> r.arrs]
              /\ UNCHANGED <<ctor, gcache, gout, rs>>

\* m.profile(B, x, strength, res_l, res_g, psi, T, rv)
CallProfile ==
    /\ call.n < MaxCalls
    /\ \E B \in 0..MaxB, T \in Temps, x \in Grids, psi \in Psis,
          strength \in 0..MaxStrength :
          \E r \in {profile(mult, B, x, strength, psi, T)} :
              /\ mult' = [mult EXCEPT !.log_gf = r.dict]
              /\ call' = [op |-> "profile", n |-> call.n + 1, B |-> B, T |-> T, x |-> x,
                          strength |-> strength, psi |-> psi]
              /\ out' = [err |-> r.err, kind |-> r.kind, val |-> r.val]
              /\ UNCHANGED <<ctor, gcache, gout, rs>>

NextMult == CallTransitions \/ CallLineProfile \/ CallProfile

SpecMult == InitMult /\ [][NextMult]_vars

\* the shipped Na D multiplet only
InitNaD == InitMult /\ mult = atomic_data_NaD

SpecNaD == InitNaD /\ [][NextMult]_vars

---------------------------------------------------------------------------
(* Properties of State *)

Called == ctor.err # "pending" /\ ctor.args # <<>>
ArgJ == ctor.args[2]
\* the L argument in quarters
ArgL == 2 * ctor.args[3]
ArgS == ctor.args[4]

\* J is one of |L-S|, |L-S|+1, ..., L+S and none of J, L, S is negative
ValidJLS(J, L, S) ==
    /\ J >= 0 /\ L >= 0 /\ S >= 0
    /\ Abs(L - S) <= J /\ J <= L + S
    /\ (J - Abs(L - S)) % 4 = 0

\* C3: State(k0, J, L, S) raises exactly when one of J, L, S is negative or J
\* is not one of |L-S|, |L-S|+1, ..., L+S, and then yields no State object.
C3_ConstructionFailsExactlyOnInvalid ==
    Called => /\ (ctor.err # "none") <=> ~ValidJLS(ArgJ, ArgL, ArgS)
              /\ (ctor.err # "none") <=> (ctor.obj = <<>>)

\* C9: every State the constructor returns has J and S non-negative multiples
\* of 1/2 and L a non-negative integer; arguments with J or S not a multiple
\* of 1/2 yield no State.
C9_AcceptedAreHalfIntegral ==
    Called => /\ ctor.obj # <<>> =>
                   LET s == ctor.obj[1]
                   IN  /\ s.J >= 0 /\ s.J % 2 = 0
                       /\ s.S >= 0 /\ s.S % 2 = 0
                       /\ s.L >= 0
              /\ (ArgJ % 2 # 0 \/ ArgS % 2 # 0) => ctor.obj = <<>>

GRead == ctor.obj # <<>> /\ gout # NoG

\* C4: for every State the constructor returns, g is 1 when S = 0; else 2
\* when L = 0; else 3/2 when L = S; else 0 when J = 0; else
\* 1 + (J(J+1) + S(S+1) - L(L+1)) / (2J(J+1)) with 2J(J+1) # 0: reading g
\* never divides by zero.
C4_LandeG ==
    GRead =>
        /\ gout.err = "none"
        /\ LET s == ctor.obj[1]
               g == gout.val[1]
               JJ1 == XX1(s.J)
               LL1 == XX1(4 * s.L)
               SS1 == XX1(s.S)
           IN  /\ g.d > 0 /\ Gcd(Abs(g.n), g.d) = 1
               /\ s.S = 0 => g = [n |-> 1, d |-> 1]
               /\ (s.S # 0 /\ s.L = 0) => g = [n |-> 2, d |-> 1]
               /\ (s.S # 0 /\ s.L # 0 /\ 4 * s.L = s.S) => g = [n |-> 3, d |-> 2]
               /\ (s.S # 0 /\ s.L # 0 /\ 4 * s.L # s.S /\ s.J = 0) =>
                      g = [n |-> 0, d |-> 1]
               /\ (s.S # 0 /\ s.L # 0 /\ 4 * s.L # s.S /\ s.J # 0) =>
                      /\ 2 * JJ1 # 0
                      /\ (g.n - g.d) * (2 * JJ1) = g.d * (JJ1 + SS1 - LL1)

\* the closed-form branch of g has been taken and its value read
C4_Witness ==
    /\ GRead
    /\ ctor.obj[1].J = 6 /\ ctor.obj[1].L = 1 /\ ctor.obj[1].S = 2
    /\ gout.val = <<[n |-> 4, d |-> 3]>>

---------------------------------------------------------------------------
(* Properties of relative_strength *)

RsCalled == rs.err # "pending" /\ rs.args # <<>>
RsdJ == rs.args[2] - rs.args[1]
Rsdm == rs.args[4] - rs.args[3]

\* C5 as stated: relative_strength raises for every input whose dJ = Jf - Ji
\* (an integer) is not -1, 0 or 1, whatever mi and mf are.
C5_RaisesWheneverdJOutside ==
    RsCalled => ((RsdJ % 4 = 0 /\ RsdJ \notin {-4, 0, 4}) => rs.err = "ValueError")

\* C5 amended: relative_strength raises exactly when |Jf - Ji| >= 2 and
\* |mf - mi| < 2 (int(Jf - Ji) outside {-1, 0, 1} and |int(mf - mi)| <= 1);
\* when |mf - mi| >= 2 it returns 0 whatever dJ is.
C5_RaisesOnlyPastCutoff ==
    RsCalled =>
        /\ rs.err = "ValueError" <=> (Abs(RsdJ) >= 8 /\ Abs(Rsdm) < 8)
        /\ Abs(Rsdm) >= 8 => (rs.err = "none" /\ rs.val = 0)

\* both outcomes for a dJ outside {-1, 0, 1} have been seen: here the error
C5_Witness == RsCalled /\ Abs(RsdJ) >= 8 /\ rs.err = "ValueError"

---------------------------------------------------------------------------
(* Properties of Multiplet *)

\* the mJ values -J, -J+1, ..., J of a level, in quarters
SubLevels(J) == {mJ \in (-J)..J : (mJ + J) % 4 = 0}

\* the level pair passes the dJ and J=0 -> J=0 selection rules
Allowed(uS, lS) == Abs(uS.J - lS.J) <= 4 /\ ~(uS.J = 0 /\ lS.J = 0)

\* the sublevel pairs <<uS, lS, lower mJ, upper mJ>> of the allowed level
\* pairs with |mJ_upper - mJ_lower| <= 1
AllowedSubPairs(m) ==
    {t \in UNION {UNION {{<<uS, lS, a, b>> :
                             a \in SubLevels(lS.J), b \in SubLevels(uS.J)} :
                         lS \in Range(m.Lower_states)} :
                  uS \in Range(m.Upper_states)} :
        Allowed(t[1], t[2]) /\ Abs(t[4] - t[3]) <= 4}

\* C1: transitions(B, T) yields a record for exactly the sublevel pairs with
\* |mJ_upper - mJ_lower| <= 1 of the level pairs with |dJ| <= 1 that are not
\* J=0 -> J=0, and each record carries dmJ = mJ_upper - mJ_lower in {-1, 0, 1}.
C1_RecordsAreTheAllowedSubPairs ==
    (call.op = "transitions" /\ out.err = "none") =>
        /\ {<<r.uS, r.lS, r.lmJ, r.umJ>> : r \in Range(out.val)} = AllowedSubPairs(mult)
        /\ \A r \in Range(out.val) :
              r.dmJ \in {-1, 0, 1} /\ 4 * r.dmJ = r.umJ - r.lmJ

\* the sum computed at the head of the loop body for the level pair (uS, lS)
TotalOf(uS, lS, B) ==
    total_strength(lS, uS, energies(lS, B).val, energies(uS, B).val, 1, 0)

\* C2: for every level pair the selection rules let through, total_strength
\* is > 0, so gf0 * rel_strength / total_strength never divides by zero.
C2_TotalStrengthPositive ==
    call.op = "transitions" =>
        /\ \A uS \in Range(mult.Upper_states), lS \in Range(mult.Lower_states) :
              Allowed(uS, lS) => TotalOf(uS, lS, call.B).val > 0
        /\ out.err # "ZeroDivisionError"

RECURSIVE SumRel(_, _, _, _, _)
SumRel(recs, uS, lS, i, acc) ==
    IF i > Len(recs) THEN acc
    ELSE SumRel(recs, uS, lS, i + 1,
             IF recs[i].uS = uS /\ recs[i].lS = lS THEN acc + recs[i].gf_.rel ELSE acc)

Occurrences(seq, e) == Cardinality({i \in DOMAIN seq : seq[i] = e})

\* C10: for every level pair the selection rules let through, the records of
\* the pair have gf_ >= 0 and their gf_ sum to gf0: the relative strengths of
\* the records sum to total_strength (once per occurrence of the pair in the
\* outer product), which is not 0.
C10_EffectiveGfSumToGf0 ==
    call.op = "transitions" =>
        \A uS \in Range(mult.Upper_states), lS \in Range(mult.Lower_states) :
            Allowed(uS, lS) =>
                /\ TotalOf(uS, lS, call.B).val > 0
                /\ \A r \in Range(out.val) :
                      (r.uS = uS /\ r.lS = lS) =>
                          /\ r.gf_.rel >= 0
                          /\ r.gf_.total = TotalOf(uS, lS, call.B).val
                /\ SumRel(out.val, uS, lS, 1, 0) =
                      Occurrences(mult.Upper_states, uS)
                          * Occurrences(mult.Lower_states, lS)
                          * TotalOf(uS, lS, call.B).val

\* C6: no call of transitions(), line_profile() or profile() that returns
\* changes Lower_states, Upper_states or the log_gf mapping (its keys and
\* values) of the Multiplet, also when a key is absent and -10.0 is used.
C6_MultipletImmutable ==
    [][(call'.n > call.n /\ out'.err = "none") => mult' = mult]_vars

\* C7: profile() returns one value per point of the grid x, each in (0, 1],
\* and every array of line_profile() is non-negative.
C7_ProfileOneValuePerGridPoint ==
    /\ (call.op = "profile" /\ out.err = "none") =>
          /\ out.kind = "array"
          /\ Len(out.val) = Len(call.x)
          /\ \A i \in DOMAIN out.val : out.val[i] \in {"one", "below_one"}
    /\ (call.op = "line_profile" /\ out.err = "none") =>
          \A j \in DOMAIN out.val :
              /\ Len(out.val[j]) = Len(call.x)
              /\ \A i \in DOMAIN out.val[j] : out.val[j][i] \in {"zero", "pos"}

---------------------------------------------------------------------------
(* Properties of the Na D multiplet *)

\* floor(10 * n / d) digit by digit: q the quotient so far, r the remainder
RECURSIVE LongDivision(_, _, _, _)
LongDivision(q, r, d, digits) ==
    IF digits = 0 THEN q
    ELSE LongDivision(10 * q + ((10 * r) \div d), (10 * r) % d, d, digits - 1)

\* w_line = 1e8/(us.k - ls.k) in 1/1000 Angstrom, rounded down, of a record
\* without Zeeman shift: 1e8 / (dk0/100) = 1e10/dk0 Angstrom
MilliAngstrom(tr) ==
    LongDivision(AngstromPerCm \div tr.w_line.dk0, AngstromPerCm % tr.w_line.dk0,
                 tr.w_line.dk0, 5)

NaDZeroField == call.op = "transitions" /\ call.B = 0 /\ call.T = 6000

\* within 0.1 Angstrom of c, c in 1/1000 Angstrom
Within100(w, c) == c - 100 <= w /\ w < c + 100

\* C8 as stated: transitions(0, T=6000) of Na D yields only wavelengths
\* within 0.1 Angstrom of 5889.95 (upper level J=3/2) or 5895.92 (J=1/2).
C8_NaDAirWavelengths ==
    NaDZeroField =>
        \A r \in Range(out.val) :
            /\ r.uS.J = 6 => Within100(MilliAngstrom(r), 5889950)
            /\ r.uS.J = 2 => Within100(MilliAngstrom(r), 5895920)

\* C8 amended: transitions(0, T=6000) of Na D yields its ten records, each
\* without Zeeman shift; every record of the J=3/2 upper level has the
\* wavelength 1e8/(16973.37 - 0.0), within 0.1 Angstrom of 5891.58, and every
\* record of the J=1/2 upper level 1e8/(16956.17 - 0.0), within 0.1 Angstrom
\* of 5897.56.
C8_NaDVacuumWavelengths ==
    NaDZeroField =>
        /\ out.err = "none"
        /\ Len(out.val) = 10
        /\ \A r \in Range(out.val) :
              /\ r.w_line.dsh.n = 0
              /\ r.uS.J \in {2, 6}
              /\ r.uS.J = 6 => /\ r.w_line.dk0 = 1697337 - 0
                               /\ Within100(MilliAngstrom(r), 5891580)
              /\ r.uS.J = 2 => /\ r.w_line.dk0 = 1695617 - 0
                               /\ Within100(MilliAngstrom(r), 5897560)

C8_Witness ==
    /\ NaDZeroField
    /\ mult = atomic_data_NaD
    /\ \E r \in Range(out.val) : r.uS.J = 6
    /\ \E r \in Range(out.val) : r.uS.J = 2

---------------------------------------------------------------------------
(* Multiplets whose level pairs all have an integer J_upper - J_lower (levels
   of one atom).  On these the selection-rule properties hold. *)

IntegerDJ(m) ==
    \A uS \in Range(m.Upper_states), lS \in Range(m.Lower_states) :
        (uS.J - lS.J) % 4 = 0

C1_OnIntegerDJ ==
    (IntegerDJ(mult) /\ call.op = "transitions") =>
        (out.err = "none" /\ C1_RecordsAreTheAllowedSubPairs)

C2_OnIntegerDJ == IntegerDJ(mult) => C2_TotalStrengthPositive

C10_OnIntegerDJ == IntegerDJ(mult) => C10_EffectiveGfSumToGf0

C10_WhenReturning == out.err = "none" => C10_EffectiveGfSumToGf0

============================================================================
